---- MODULE Spec2Model ----
(***************************************************************************)
(* Model of src/src/abrigo-animais.js: class AbrigoAnimais, which decides  *)
(* for two adopters ("pessoa 1", "pessoa 2") and a processing order of     *)
(* animals where each animal goes.                                         *)
(*                                                                         *)
(* Representation of JavaScript values:                                    *)
(*  - an argument is a record [tipo, pedacos]: tipo is its typeof, and for *)
(*    a string pedacos is the sequence of its pieces, each piece being a   *)
(*    comma ",", a whitespace " " or a run of other characters, so that    *)
(*    "RATO, BOLA" is <<"RATO", ",", " ", "BOLA">>;                        *)
(*  - a list of strings (string[]) is a TLA+ sequence of strings;          *)
(*  - the object `destino` is a function from its keys to its values;      *)
(*  - `estado` is a function from 1..2 to records.                         *)
(***************************************************************************)
EXTENDS Integers, Sequences, FiniteSets, TLC

VARIABLES
  pc,               \* position inside encontraPessoas
  pessoa1Str,       \* the three arguments of the current call
  pessoa2Str,
  ordemAnimaisStr,
  p1Toys,           \* pessoa1Toys / p1Toys
  p2Toys,           \* pessoa2Toys / p2Toys
  ordemAnimais,     \* the parsed processing order
  pos,              \* position of the for-loop of line 163 in ordemAnimais
  estado,           \* local `estado` of #processaAdocoes
  destino,          \* local `destino` of #processaAdocoes
  resultado,        \* the value returned
  chamadas,         \* history: arguments and result of the calls already returned
  entrada           \* SpecElegivel: the arguments of #pessoaElegivelParaAnimal

vars == <<pc, pessoa1Str, pessoa2Str, ordemAnimaisStr, p1Toys, p2Toys,
          ordemAnimais, pos, estado, destino, resultado, chamadas, entrada>>

\* the arguments of encontraPessoas (line 47)
argumentos == <<pessoa1Str, pessoa2Str, ordemAnimaisStr>>

\* the parsed lists (lines 50-52)
listas == <<p1Toys, p2Toys, ordemAnimais>>

(***************************************************************************)
(* The instance's configuration (constructor, lines 6-23).                 *)
(***************************************************************************)
Animais == {"Rex", "Mimi", "Fofo", "Zero", "Bola", "Bebe", "Loco"}

catalogo ==
  [n \in Animais |->
     CASE n = "Rex"  -> [tipo |-> "cão",    brinquedos |-> <<"RATO", "BOLA">>]
       [] n = "Mimi" -> [tipo |-> "gato",   brinquedos |-> <<"BOLA", "LASER">>]
       [] n = "Fofo" -> [tipo |-> "gato",   brinquedos |-> <<"BOLA", "RATO", "LASER">>]
       [] n = "Zero" -> [tipo |-> "gato",   brinquedos |-> <<"RATO", "BOLA">>]
       [] n = "Bola" -> [tipo |-> "cão",    brinquedos |-> <<"CAIXA", "NOVELO">>]
       [] n = "Bebe" -> [tipo |-> "cão",    brinquedos |-> <<"LASER", "RATO", "BOLA">>]
       [] n = "Loco" -> [tipo |-> "jabuti", brinquedos |-> <<"SKATE", "RATO">>]]

brinquedosValidos == {"RATO", "BOLA", "LASER", "CAIXA", "NOVELO", "SKATE"}

Pessoas == {1, 2}

(***************************************************************************)
(* #contemSubsequencia (lines 266-276): one forward scan of `lista` with a *)
(* pointer i into `padrao`.  varre is the for-loop from position k on.     *)
(***************************************************************************)
RECURSIVE varre(_, _, _, _)
varre(lista, padrao, k, i) ==
  IF k > Len(lista) THEN FALSE
  ELSE IF lista[k] = padrao[i + 1]
       THEN IF i + 1 = Len(padrao) THEN TRUE
            ELSE varre(lista, padrao, k + 1, i + 1)
       ELSE varre(lista, padrao, k + 1, i)

\* every toy of padrao is somewhere in lista, in any order
contemEmQualquerOrdem(lista, padrao) ==
  \A j \in 1..Len(padrao) : \E k \in 1..Len(lista) : lista[k] = padrao[j]

contemSubsequencia(lista, padrao) ==
  IF Len(padrao) = 0 THEN TRUE ELSE varre(lista, padrao, 1, 0)

\* new Set(list).has / every (lines 251-252, 217-219)
temTodos(toys, precisa) ==
  \A j \in 1..Len(precisa) : \E k \in 1..Len(toys) : toys[k] = precisa[j]

\* favs.some in place of favs.every for Loco
pessoaElegivelLocoParcial(favs, toysPessoa, nomeAnimal) ==
  IF nomeAnimal = "Loco"
  THEN \E j \in 1..Len(favs) : \E k \in 1..Len(toysPessoa) :
          toysPessoa[k] = favs[j]
  ELSE contemSubsequencia(toysPessoa, favs)

(***************************************************************************)
(* #pessoaElegivelParaAnimal (lines 248-257).  The parameters idxPessoa,   *)
(* infoAnimal and estado are not read by the code.                         *)
(***************************************************************************)
pessoaElegivelParaAnimal(favs, toysPessoa, nomeAnimal) ==
  IF nomeAnimal = "Loco"
  THEN temTodos(toysPessoa, favs)
  ELSE contemSubsequencia(toysPessoa, favs)

(***************************************************************************)
(* #processaAdocoes (lines 150-232).                                       *)
(***************************************************************************)
\* the state the previous call left
estadoHerdado == estado

estadoInicial ==
  [p \in Pessoas |-> [total |-> 0, gatos |-> 0, possuiOutroAnimal |-> FALSE]]

rotulo(vencedor) == IF vencedor = 1 THEN "pessoa 1" ELSE "pessoa 2"

\* destino[nome] = quem
atribui(dest, nome, quem) ==
  [n \in (DOMAIN dest) \cup {nome} |-> IF n = nome THEN quem ELSE dest[n]]

limiteTotalFrouxo(est, vencedor) == est[vencedor].total > 3

\* line 189
limiteTotal(est, vencedor) == est[vencedor].total >= 3

\* line 195
limiteGatos(est, vencedor, info) ==
  info.tipo = "gato" /\ est[vencedor].gatos >= 1

\* without line 204
efetivaSemGato(est, vencedor, info) ==
  [est EXCEPT ![vencedor] =
     [total |-> @.total + 1,
      gatos |-> @.gatos,
      possuiOutroAnimal |-> TRUE]]

\* the cat counter incremented for every species
efetivaContaTodos(est, vencedor, info) ==
  [est EXCEPT ![vencedor] =
     [total |-> @.total + 1,
      gatos |-> @.gatos + 1,
      possuiOutroAnimal |-> TRUE]]

\* lines 201-204
efetiva(est, vencedor, info) ==
  [est EXCEPT ![vencedor] =
     [total |-> @.total + 1,
      gatos |-> IF info.tipo = "gato" THEN @.gatos + 1 ELSE @.gatos,
      possuiOutroAnimal |-> TRUE]]

\* the iteration without the tie rule of lines 176-179
alocaAnimalSemEmpate(est, dest, nome, t1, t2) ==
  LET info  == catalogo[nome]
      fav   == info.brinquedos
      pode1 == pessoaElegivelParaAnimal(fav, t1, nome)
      pode2 == pessoaElegivelParaAnimal(fav, t2, nome)
      vencedor == IF pode1 THEN 1 ELSE IF pode2 THEN 2 ELSE 0
      abrigo == [estado |-> est, destino |-> atribui(dest, nome, "abrigo")]
  IN  IF vencedor = 0 THEN abrigo
      ELSE IF limiteTotal(est, vencedor) THEN abrigo
      ELSE IF limiteGatos(est, vencedor, info) THEN abrigo
      ELSE [estado  |-> efetiva(est, vencedor, info),
            destino |-> atribui(dest, nome, rotulo(vencedor))]

\* One iteration of the for-loop of lines 163-205 for the animal `nome`.
alocaAnimal(est, dest, nome, t1, t2) ==
  LET info  == catalogo[nome]
      fav   == info.brinquedos
      pode1 == pessoaElegivelParaAnimal(fav, t1, nome)
      pode2 == pessoaElegivelParaAnimal(fav, t2, nome)
      vencedor == IF pode1 THEN 1 ELSE IF pode2 THEN 2 ELSE 0
      abrigo == [estado |-> est, destino |-> atribui(dest, nome, "abrigo")]
  IN  IF pode1 /\ pode2 THEN abrigo
      ELSE IF vencedor = 0 THEN abrigo
      ELSE IF limiteTotal(est, vencedor) THEN abrigo
      ELSE IF limiteGatos(est, vencedor, info) THEN abrigo
      ELSE [estado  |-> efetiva(est, vencedor, info),
            destino |-> atribui(dest, nome, rotulo(vencedor))]

possuiCompanhiaSemOutro(est, vencedor) == est[vencedor].total >= 1

\* the company test reading pessoa 1's counter for either adopter
possuiCompanhiaDaPessoa1(est, vencedor) == est[1].total >= 2

\* line 222
possuiCompanhia(est, vencedor) == est[vencedor].total >= 2

\* the revocation without line 227
reconciliaSemDecremento(est, dest, t1, t2) ==
  IF "Loco" \notin DOMAIN dest THEN [estado |-> est, destino |-> dest]
  ELSE IF dest["Loco"] = "abrigo" THEN [estado |-> est, destino |-> dest]
  ELSE LET vencedor == IF dest["Loco"] = "pessoa 1" THEN 1 ELSE 2
           precisa  == catalogo["Loco"].brinquedos
           tem      == temTodos(IF vencedor = 1 THEN t1 ELSE t2, precisa)
       IN  IF ~tem \/ ~possuiCompanhia(est, vencedor)
           THEN [estado  |-> est,
                 destino |-> atribui(dest, "Loco", "abrigo")]
           ELSE [estado |-> est, destino |-> dest]

\* the condition of line 225 with the company test negated
reconciliaCompanhiaInvertida(est, dest, t1, t2) ==
  IF "Loco" \notin DOMAIN dest THEN [estado |-> est, destino |-> dest]
  ELSE IF dest["Loco"] = "abrigo" THEN [estado |-> est, destino |-> dest]
  ELSE LET vencedor == IF dest["Loco"] = "pessoa 1" THEN 1 ELSE 2
           precisa  == catalogo["Loco"].brinquedos
           tem      == temTodos(IF vencedor = 1 THEN t1 ELSE t2, precisa)
       IN  IF ~tem \/ possuiCompanhia(est, vencedor)
           THEN [estado  |-> [est EXCEPT ![vencedor].total = @ - 1],
                 destino |-> atribui(dest, "Loco", "abrigo")]
           ELSE [estado |-> est, destino |-> dest]

\* The post-processing loop of lines 208-229: only the key 'Loco' is acted on.
reconcilia(est, dest, t1, t2) ==
  IF "Loco" \notin DOMAIN dest THEN [estado |-> est, destino |-> dest]
  ELSE IF dest["Loco"] = "abrigo" THEN [estado |-> est, destino |-> dest]
  ELSE LET vencedor == IF dest["Loco"] = "pessoa 1" THEN 1 ELSE 2
           precisa  == catalogo["Loco"].brinquedos
           tem      == temTodos(IF vencedor = 1 THEN t1 ELSE t2, precisa)
       IN  IF ~tem \/ ~possuiCompanhia(est, vencedor)
           THEN [estado  |-> [est EXCEPT ![vencedor].total = @ - 1],
                 destino |-> atribui(dest, "Loco", "abrigo")]
           ELSE [estado |-> est, destino |-> dest]

(***************************************************************************)
(* #parseLista (lines 91-98).                                              *)
(***************************************************************************)
Texto(ps) == [tipo |-> "string", pedacos |-> ps]

NaoString(t) == [tipo |-> t, pedacos |-> << >>]

Virgula == ","

Brancos == {" "}

RECURSIVE trimEsq(_)
trimEsq(ps) ==
  IF ps # << >> /\ Head(ps) \in Brancos THEN trimEsq(Tail(ps)) ELSE ps

RECURSIVE trimDir(_)
trimDir(ps) ==
  IF ps # << >> /\ ps[Len(ps)] \in Brancos
  THEN trimDir(SubSeq(ps, 1, Len(ps) - 1))
  ELSE ps

\* String.prototype.trim on a sequence of pieces
trim(ps) == trimDir(trimEsq(ps))

\* str.split(',')
RECURSIVE split(_)
split(ps) ==
  IF \E k \in 1..Len(ps) : ps[k] = Virgula
  THEN LET v == CHOOSE c \in 1..Len(ps) :
                  ps[c] = Virgula /\ \A j \in 1..(c - 1) : ps[j] # Virgula
       IN  <<SubSeq(ps, 1, v - 1)>> \o split(SubSeq(ps, v + 1, Len(ps)))
  ELSE <<ps>>

\* the string made of the pieces
RECURSIVE junta(_)
junta(ps) == IF ps = << >> THEN "" ELSE Head(ps) \o junta(Tail(ps))

\* without the typeof guard of line 92: the value is converted to a string
parseListaSemGuarda(str) ==
  IF str.tipo # "string" THEN <<str.tipo>>
  ELSE IF trim(str.pedacos) = << >> THEN << >>
  ELSE LET partes  == split(str.pedacos)
           limpas  == [k \in 1..Len(partes) |-> junta(trim(partes[k]))]
       IN  SelectSeq(limpas, LAMBDA t : t # "")

\* the guard of line 92 written for a missing argument only
parseListaGuardaParcial(str) ==
  IF str.tipo = "undefined" THEN << >>
  ELSE IF str.tipo # "string" THEN <<str.tipo>>
  ELSE IF trim(str.pedacos) = << >> THEN << >>
  ELSE LET partes  == split(str.pedacos)
           limpas  == [k \in 1..Len(partes) |-> junta(trim(partes[k]))]
       IN  SelectSeq(limpas, LAMBDA u : u # "")

parseLista(str) ==
  IF str.tipo # "string" THEN << >>
  ELSE IF trim(str.pedacos) = << >> THEN << >>
  ELSE LET partes  == split(str.pedacos)
           limpas  == [k \in 1..Len(partes) |-> junta(trim(partes[k]))]
       IN  SelectSeq(limpas, LAMBDA s : s # "")

(***************************************************************************)
(* #validaBrinquedos (lines 107-114) and #validaAnimais (lines 123-130):   *)
(* the message of the Error thrown, or "ok".                               *)
(***************************************************************************)
repetido(lista, k) == \E j \in 1..(k - 1) : lista[j] = lista[k]

validaBrinquedos(lista) ==
  IF \E k \in 1..Len(lista) :
       repetido(lista, k) \/ lista[k] \notin brinquedosValidos
  THEN "Brinquedo inválido"
  ELSE "ok"

\* The twelve own property names of Object.prototype, which every object
\* literal inherits: for these this.catalogo[nome] is a function or an
\* object, hence truthy.
HerdadasDeObject ==
  {"constructor", "toString", "toLocaleString", "valueOf", "hasOwnProperty",
   "isPrototypeOf", "propertyIsEnumerable", "__proto__",
   "__defineGetter__", "__defineSetter__", "__lookupGetter__",
   "__lookupSetter__"}

\* this.catalogo[nome] is truthy (line 128)
consultaCatalogo(nome) == nome \in Animais \/ nome \in HerdadasDeObject

validaAnimais(lista) ==
  IF \E k \in 1..Len(lista) :
       repetido(lista, k) \/ ~consultaCatalogo(lista[k])
  THEN "Animal inválido"
  ELSE "ok"

\* the catch block (lines 74-81)
normalizaErro(mensagem) ==
  IF mensagem = "Animal inválido" \/ mensagem = "Brinquedo inválido"
  THEN [erro |-> mensagem]
  ELSE [erro |-> "Brinquedo inválido"]

(***************************************************************************)
(* Result assembly (lines 69-71).                                          *)
(***************************************************************************)
\* The letters of the catalog names as positions in the alphabet, the
\* primary collation key String.prototype.localeCompare compares by.
letras ==
  [n \in Animais |->
     CASE n = "Rex"  -> <<18, 5, 24>>
       [] n = "Mimi" -> <<13, 9, 13, 9>>
       [] n = "Fofo" -> <<6, 15, 6, 15>>
       [] n = "Zero" -> <<26, 5, 18, 15>>
       [] n = "Bola" -> <<2, 15, 12, 1>>
       [] n = "Bebe" -> <<2, 5, 2, 5>>
       [] n = "Loco" -> <<12, 15, 3, 15>>]

RECURSIVE comparaLetras(_, _)
comparaLetras(x, y) ==
  IF x = << >> /\ y = << >> THEN 0
  ELSE IF x = << >> THEN -1
  ELSE IF y = << >> THEN 1
  ELSE IF Head(x) < Head(y) THEN -1
  ELSE IF Head(x) > Head(y) THEN 1
  ELSE comparaLetras(Tail(x), Tail(y))

localeCompareInvertido(a, b) == comparaLetras(letras[b], letras[a])

localeCompare(a, b) == comparaLetras(letras[a], letras[b])

\* Array.prototype.sort with the comparator of line 70
RECURSIVE insere(_, _)
insere(s, x) ==
  IF s = << >> THEN <<x>>
  ELSE IF localeCompare(x, Head(s)) < 0 THEN <<x>> \o s
  ELSE <<Head(s)>> \o insere(Tail(s), x)

RECURSIVE ordena(_)
ordena(s) ==
  IF s = << >> THEN << >>
  ELSE insere(ordena(SubSeq(s, 1, Len(s) - 1)), s[Len(s)])

\* Object.keys(destino): the keys in insertion order, which is the order of
\* the loop of line 163 over a duplicate-free ordemAnimais.
chaves(dest, ordem) == SelectSeq(ordem, LAMBDA n : n \in DOMAIN dest)

\* `${nome} - ${adocoes[nome]}`
formata(nome, quem) == nome \o " - " \o quem

montaLista(dest, ordem) ==
  LET nomes == ordena(chaves(dest, ordem))
  IN  [k \in 1..Len(nomes) |-> formata(nomes[k], dest[nomes[k]])]

(***************************************************************************)
(* Bounds and input sets.                                                  *)
(***************************************************************************)
\* SpecAloca: the two inventories together hold at most MaxBrinquedos toys
\* (the inventories of the scenarios are added to these).
MaxBrinquedos == 3

\* Spec: an inventory argument lists at most MaxTokens tokens, the
\* processing order at most MaxOrdem names.
MaxTokens == 2

MaxOrdem == 2

\* SpecChamadas: calls made after the first one.
MaxChamadas == 2

\* SpecOrdem: the processing order names at most MaxOrdemLoco animals.
MaxOrdemLoco == 3

SemRepeticao(s) == \A a, b \in 1..Len(s) : a # b => s[a] # s[b]

Inventarios(n) ==
  UNION {{s \in [1..k -> brinquedosValidos] : SemRepeticao(s)} : k \in 0..n}

Listas(S, n) == UNION {[1..k -> S] : k \in 0..n}

\* "A,B,C"
RECURSIVE escreve(_)
escreve(lista) ==
  IF lista = << >> THEN << >>
  ELSE IF Len(lista) = 1 THEN <<lista[1]>>
  ELSE <<Head(lista), Virgula>> \o escreve(Tail(lista))

TokensBrinquedo == {"RATO", "BOLA", "PEIXE"}

TokensAnimal == {"Rex", "Zero", "Bola", "Lulu", "constructor"}

\* arguments that are not a plain "A,B,C"
Incomuns == {Texto(<<" ", " ">>), NaoString("undefined"), NaoString("number")}

ArgsBrinquedos ==
  {Texto(escreve(l)) : l \in Listas(TokensBrinquedo, MaxTokens)}
    \cup Incomuns
    \cup {Texto(<<" ", "RATO", " ", ",", ",", " ", "BOLA", ",">>)}

ArgsAnimais ==
  {Texto(escreve(l)) : l \in Listas(TokensAnimal, MaxOrdem)}
    \cup Incomuns
    \cup {Texto(<<"Zero", " ", ",", " ", "Rex", " ">>)}

\* The scenarios of the README's demo and of the specification's section 8,
\* and more: a second cat, a tie after an adoption, a fourth animal for
\* either adopter, empty inventories.
Cenarios ==
  {<<Texto(<<"RATO", ",", "BOLA">>), Texto(<<"RATO", ",", "NOVELO">>),
     Texto(<<"Rex", ",", "Fofo">>)>>,
   <<Texto(<<"CAIXA", ",", "RATO">>), Texto(<<"RATO", ",", "BOLA">>),
     Texto(<<"Lulu">>)>>,
   <<Texto(<<"SKATE", ",", "RATO", ",", "BOLA">>), Texto(<<"LASER">>),
     Texto(<<"Loco", ",", "Rex">>)>>,
   <<Texto(<<"SKATE", ",", "RATO", ",", "BOLA">>), Texto(<<"LASER">>),
     Texto(<<"Rex", ",", "Loco">>)>>,
   <<Texto(<<"RATO", ",", "BOLA">>), Texto(<<"RATO", ",", "BOLA">>),
     Texto(<<"Zero">>)>>,
   <<Texto(<<"RATO", ",", "RATO">>), Texto(<<"RATO", ",", "BOLA">>),
     Texto(<<"Rex">>)>>,
   <<Texto(<<"LASER">>), Texto(<<"RATO", ",", "BOLA", ",", "LASER">>),
     Texto(<<"Zero", ",", "Mimi">>)>>,
   <<Texto(<<"RATO", ",", "BOLA", ",", "LASER">>), Texto(<<"RATO", ",", "BOLA">>),
     Texto(<<"Mimi", ",", "Rex", ",", "Zero">>)>>,
   <<Texto(<<"SKATE", ",", "LASER", ",", "RATO", ",", "BOLA">>),
     Texto(<<"CAIXA", ",", "NOVELO">>),
     Texto(<<"Rex", ",", "Bebe", ",", "Zero", ",", "Loco", ",", "Bola">>)>>,
   <<Texto(<<"BOLA", ",", "LASER">>),
     Texto(<<"CAIXA", ",", "NOVELO", ",", "SKATE", ",", "RATO", ",", "BOLA">>),
     Texto(<<"Loco", ",", "Zero", ",", "Bola", ",", "Rex", ",", "Mimi">>)>>,
   <<Texto(<< >>), NaoString("undefined"), Texto(<<"Bebe">>)>>}

(***************************************************************************)
(* encontraPessoas (lines 47-82) as a sequence of steps.                   *)
(***************************************************************************)
semResultado == << >>

semEntrada == << >>

Retorna(r) ==
  /\ resultado' = r
  /\ pc' = "fim"

\* lines 50-52
Parse ==
  /\ pc = "inicio"
  /\ p1Toys' = parseLista(pessoa1Str)
  /\ p2Toys' = parseLista(pessoa2Str)
  /\ ordemAnimais' = parseLista(ordemAnimaisStr)
  /\ pc' = "validaBrinquedos1"
  /\ UNCHANGED <<argumentos, pos, estado, destino, resultado, chamadas,
                 entrada>>

\* line 55
ValidaBrinquedos1 ==
  /\ pc = "validaBrinquedos1"
  /\ IF validaBrinquedos(p1Toys) = "ok"
     THEN pc' = "validaBrinquedos2" /\ UNCHANGED resultado
     ELSE Retorna(normalizaErro(validaBrinquedos(p1Toys)))
  /\ UNCHANGED <<argumentos, listas, pos, estado, destino, chamadas, entrada>>

\* line 56 left out
ValidaBrinquedos2Omitida ==
  /\ pc = "validaBrinquedos2"
  /\ pc' = "validaAnimais"
  /\ UNCHANGED <<argumentos, listas, pos, estado, destino, resultado,
                 chamadas, entrada>>

\* line 56
ValidaBrinquedos2 ==
  /\ pc = "validaBrinquedos2"
  /\ IF validaBrinquedos(p2Toys) = "ok"
     THEN pc' = "validaAnimais" /\ UNCHANGED resultado
     ELSE Retorna(normalizaErro(validaBrinquedos(p2Toys)))
  /\ UNCHANGED <<argumentos, listas, pos, estado, destino, chamadas, entrada>>

\* line 59 left out
ValidaAnimaisOmitida ==
  /\ pc = "validaAnimais"
  /\ pc' = "processa"
  /\ UNCHANGED <<argumentos, listas, pos, estado, destino, resultado,
                 chamadas, entrada>>

\* line 59
ValidaAnimais ==
  /\ pc = "validaAnimais"
  /\ IF validaAnimais(ordemAnimais) = "ok"
     THEN pc' = "processa" /\ UNCHANGED resultado
     ELSE Retorna(normalizaErro(validaAnimais(ordemAnimais)))
  /\ UNCHANGED <<argumentos, listas, pos, estado, destino, chamadas, entrada>>

\* lines 150-161: entry of #processaAdocoes
IniciaAdocoes ==
  /\ pc = "processa"
  /\ estado' = estadoInicial
  /\ destino' = << >>
  /\ pos' = 1
  /\ pc' = "alocar"
  /\ UNCHANGED <<argumentos, listas, resultado, chamadas, entrada>>

\* the revalidation of Loco run inside the loop, right after each iteration
AlocaReconciliaLogo ==
  /\ pc = "alocar"
  /\ pos <= Len(ordemAnimais)
  /\ LET nome == ordemAnimais[pos]
     IN  IF nome \in Animais
         THEN LET r == alocaAnimal(estado, destino, nome, p1Toys, p2Toys)
                  q == reconcilia(r.estado, r.destino, p1Toys, p2Toys)
              IN  /\ estado' = q.estado
                  /\ destino' = q.destino
                  /\ pos' = pos + 1
                  /\ UNCHANGED <<pc, resultado>>
         ELSE /\ Retorna(normalizaErro("TypeError"))
              /\ UNCHANGED <<estado, destino, pos>>
  /\ UNCHANGED <<argumentos, listas, chamadas, entrada>>

\* lines 163-205: one iteration.  For a name that passed #validaAnimais
\* through an inherited property, info.brinquedos is undefined and
\* padrao.length (line 267) throws a TypeError, caught at line 74.
Aloca ==
  /\ pc = "alocar"
  /\ pos <= Len(ordemAnimais)
  /\ LET nome == ordemAnimais[pos]
     IN  IF nome \in Animais
         THEN LET r == alocaAnimal(estado, destino, nome, p1Toys, p2Toys)
              IN  /\ estado' = r.estado
                  /\ destino' = r.destino
                  /\ pos' = pos + 1
                  /\ UNCHANGED <<pc, resultado>>
         ELSE /\ Retorna(normalizaErro("TypeError"))
              /\ UNCHANGED <<estado, destino, pos>>
  /\ UNCHANGED <<argumentos, listas, chamadas, entrada>>

\* lines 207-231
Reconcilia ==
  /\ pc = "alocar"
  /\ pos > Len(ordemAnimais)
  /\ LET r == reconcilia(estado, destino, p1Toys, p2Toys)
     IN  estado' = r.estado /\ destino' = r.destino
  /\ pc' = "montar"
  /\ UNCHANGED <<argumentos, listas, pos, resultado, chamadas, entrada>>

\* lines 68-73
Monta ==
  /\ pc = "montar"
  /\ Retorna([lista |-> montaLista(destino, ordemAnimais)])
  /\ UNCHANGED <<argumentos, listas, pos, estado, destino, chamadas, entrada>>

Init ==
  /\ pc = "inicio"
  /\ pessoa1Str \in ArgsBrinquedos
  /\ pessoa2Str \in ArgsBrinquedos
  /\ ordemAnimaisStr \in ArgsAnimais
  /\ p1Toys = << >>
  /\ p2Toys = << >>
  /\ ordemAnimais = << >>
  /\ pos = 0
  /\ estado = [p \in Pessoas |->
                 [total |-> 0, gatos |-> 0, possuiOutroAnimal |-> FALSE]]
  /\ destino = << >>
  /\ resultado = semResultado
  /\ chamadas = << >>
  /\ entrada = semEntrada

Next ==
  \/ Parse
  \/ ValidaBrinquedos1
  \/ ValidaBrinquedos2
  \/ ValidaAnimais
  \/ IniciaAdocoes
  \/ Aloca
  \/ Reconcilia
  \/ Monta

Spec == Init /\ [][Next]_vars

(***************************************************************************)
(* SpecAloca: #processaAdocoes on validated arguments.  The processing     *)
(* order is an input: each step of the loop draws the next name of the     *)
(* order among the catalog names not yet walked (a validated order has no  *)
(* name twice), or the order ends.                                         *)
(***************************************************************************)
\* The inventories of the scenarios that pass validation.
InventariosDosCenarios ==
  {<<parseLista(c[1]), parseLista(c[2])>> : c \in
     {d \in Cenarios : /\ validaBrinquedos(parseLista(d[1])) = "ok"
                       /\ validaBrinquedos(parseLista(d[2])) = "ok"}}

ParesDeInventarios ==
  UNION {{<<a, b>> : b \in Inventarios(MaxBrinquedos - Len(a))} :
           a \in Inventarios(MaxBrinquedos)}
    \cup InventariosDosCenarios

InitAloca ==
  /\ pc = "processa"
  /\ \E par \in ParesDeInventarios : p1Toys = par[1] /\ p2Toys = par[2]
  /\ pessoa1Str = NaoString("undefined")
  /\ pessoa2Str = NaoString("undefined")
  /\ ordemAnimaisStr = NaoString("undefined")
  /\ ordemAnimais = << >>
  /\ pos = 0
  /\ estado = [p \in Pessoas |->
                 [total |-> 0, gatos |-> 0, possuiOutroAnimal |-> FALSE]]
  /\ destino = << >>
  /\ resultado = semResultado
  /\ chamadas = << >>
  /\ entrada = semEntrada

AlocaProximo ==
  /\ pc = "alocar"
  /\ \E nome \in Animais \ DOMAIN destino :
       LET r == alocaAnimal(estado, destino, nome, p1Toys, p2Toys)
       IN  estado' = r.estado /\ destino' = r.destino
  /\ UNCHANGED <<pc, argumentos, listas, pos, resultado, chamadas, entrada>>

FimDaOrdem ==
  /\ pc = "alocar"
  /\ LET r == reconcilia(estado, destino, p1Toys, p2Toys)
     IN  estado' = r.estado /\ destino' = r.destino
  /\ pc' = "retorna"
  /\ UNCHANGED <<argumentos, listas, pos, resultado, chamadas, entrada>>

NextAloca == IniciaAdocoes \/ AlocaProximo \/ FimDaOrdem

SpecAloca == InitAloca /\ [][NextAloca]_vars

(***************************************************************************)
(* SpecOrdem: #processaAdocoes and the assembly of the list on validated   *)
(* arguments with the processing order given up front, so that the place   *)
(* of Loco among the other animals is part of the state.  The orders name  *)
(* Loco, and one of the inventories holds Loco's two toys.                 *)
(***************************************************************************)
SegueLoco(inv) ==
  /\ \E k \in 1..Len(inv) : inv[k] = "SKATE"
  /\ \E k \in 1..Len(inv) : inv[k] = "RATO"

ParesComLoco ==
  {par \in ParesDeInventarios : SegueLoco(par[1]) \/ SegueLoco(par[2])}

OrdensComLoco ==
  {o \in UNION {[1..k -> Animais] : k \in 1..MaxOrdemLoco} :
     SemRepeticao(o) /\ \E k \in 1..Len(o) : o[k] = "Loco"}

InitOrdem ==
  /\ pc = "processa"
  /\ \E par \in ParesComLoco : p1Toys = par[1] /\ p2Toys = par[2]
  /\ ordemAnimais \in OrdensComLoco
  /\ pessoa1Str = NaoString("undefined")
  /\ pessoa2Str = NaoString("undefined")
  /\ ordemAnimaisStr = NaoString("undefined")
  /\ pos = 0
  /\ estado = [p \in Pessoas |->
                 [total |-> 0, gatos |-> 0, possuiOutroAnimal |-> FALSE]]
  /\ destino = << >>
  /\ resultado = semResultado
  /\ chamadas = << >>
  /\ entrada = semEntrada

NextOrdem == IniciaAdocoes \/ Aloca \/ Reconcilia \/ Monta

SpecOrdem == InitOrdem /\ [][NextOrdem]_vars

(***************************************************************************)
(* SpecChamadas: several calls of encontraPessoas on one instance.  The    *)
(* locals of a call that returned stay in the state as they were left.     *)
(***************************************************************************)
InitChamadas ==
  /\ pc = "inicio"
  /\ \E c \in Cenarios :
       pessoa1Str = c[1] /\ pessoa2Str = c[2] /\ ordemAnimaisStr = c[3]
  /\ p1Toys = << >>
  /\ p2Toys = << >>
  /\ ordemAnimais = << >>
  /\ pos = 0
  /\ estado = [p \in Pessoas |->
                 [total |-> 0, gatos |-> 0, possuiOutroAnimal |-> FALSE]]
  /\ destino = << >>
  /\ resultado = semResultado
  /\ chamadas = << >>
  /\ entrada = semEntrada

NovaChamada ==
  /\ pc = "fim"
  /\ Len(chamadas) < MaxChamadas
  /\ chamadas' = Append(chamadas, [args |-> argumentos, resultado |-> resultado])
  /\ \E c \in Cenarios :
       pessoa1Str' = c[1] /\ pessoa2Str' = c[2] /\ ordemAnimaisStr' = c[3]
  /\ resultado' = semResultado
  /\ pc' = "inicio"
  /\ UNCHANGED <<listas, pos, estado, destino, entrada>>

NextChamadas == Next \/ NovaChamada

SpecChamadas == InitChamadas /\ [][NextChamadas]_vars

(***************************************************************************)
(* SpecTroca: a call of encontraPessoas followed by the call with the two  *)
(* inventories exchanged and the same processing order.  The first call's  *)
(* arguments are a scenario, or an order that names Loco with a pair of    *)
(* inventories in which someone holds Loco's toys.                         *)
(***************************************************************************)
OrdensCurtasComLoco == {o \in OrdensComLoco : Len(o) <= MaxOrdem}

InitTroca ==
  /\ pc = "inicio"
  /\ \/ \E c \in Cenarios :
          pessoa1Str = c[1] /\ pessoa2Str = c[2] /\ ordemAnimaisStr = c[3]
     \/ \E par \in ParesComLoco : \E o \in OrdensCurtasComLoco :
          /\ pessoa1Str = Texto(escreve(par[1]))
          /\ pessoa2Str = Texto(escreve(par[2]))
          /\ ordemAnimaisStr = Texto(escreve(o))
  /\ p1Toys = << >>
  /\ p2Toys = << >>
  /\ ordemAnimais = << >>
  /\ pos = 0
  /\ estado = [p \in Pessoas |->
                 [total |-> 0, gatos |-> 0, possuiOutroAnimal |-> FALSE]]
  /\ destino = << >>
  /\ resultado = semResultado
  /\ chamadas = << >>
  /\ entrada = semEntrada

Troca ==
  /\ pc = "fim"
  /\ chamadas = << >>
  /\ chamadas' = <<[args |-> argumentos, resultado |-> resultado]>>
  /\ pessoa1Str' = pessoa2Str
  /\ pessoa2Str' = pessoa1Str
  /\ resultado' = semResultado
  /\ pc' = "inicio"
  /\ UNCHANGED <<ordemAnimaisStr, listas, pos, estado, destino, entrada>>

NextTroca == Next \/ Troca

SpecTroca == InitTroca /\ [][NextTroca]_vars

(***************************************************************************)
(* SpecElegivel: #pessoaElegivelParaAnimal on every duplicate-free         *)
(* inventory over the valid toys, for the catalog's animals and for an     *)
(* animal without favourite toys.                                          *)
(***************************************************************************)
SemFavoritos == "SemFavoritos"

InitElegivel ==
  /\ pc = "elegivel"
  /\ \E n \in Animais \cup {SemFavoritos} :
       \E t \in Inventarios(Cardinality(brinquedosValidos)) :
          entrada = [favs |-> IF n \in Animais THEN catalogo[n].brinquedos
                              ELSE << >>,
                     toysPessoa |-> t,
                     nomeAnimal |-> n]
  /\ pessoa1Str = NaoString("undefined")
  /\ pessoa2Str = NaoString("undefined")
  /\ ordemAnimaisStr = NaoString("undefined")
  /\ p1Toys = << >>
  /\ p2Toys = << >>
  /\ ordemAnimais = << >>
  /\ pos = 0
  /\ estado = [p \in Pessoas |->
                 [total |-> 0, gatos |-> 0, possuiOutroAnimal |-> FALSE]]
  /\ destino = << >>
  /\ resultado = semResultado
  /\ chamadas = << >>

Elege ==
  /\ pc = "elegivel"
  /\ resultado' = [valor |-> pessoaElegivelParaAnimal(entrada.favs,
                                entrada.toysPessoa, entrada.nomeAnimal)]
  /\ pc' = "retorna"
  /\ UNCHANGED <<argumentos, listas, pos, estado, destino, chamadas, entrada>>

NextElegivel == Elege

SpecElegivel == InitElegivel /\ [][NextElegivel]_vars

(***************************************************************************)
(* Properties.  The vocabulary below is stated from the rules, not from    *)
(* the operators above.                                                    *)
(***************************************************************************)
Rotulo(p) == IF p = 1 THEN "pessoa 1" ELSE "pessoa 2"

Inventario(p) == IF p = 1 THEN p1Toys ELSE p2Toys

\* the animals whose current destination is adopter p
Adotados(p) == {n \in DOMAIN destino : destino[n] = Rotulo(p)}

Gatos == {n \in Animais : catalogo[n].tipo = "gato"}

Tem(inv, t) == \E k \in 1..Len(inv) : inv[k] = t

Lugar(inv, t) == CHOOSE k \in 1..Len(inv) : inv[k] = t

\* The eligibility rule on a duplicate-free inventory: every favourite toy is
\* held and, except for Loco, the favourites stand in the inventory in their
\* own order.
Satisfaz(inv, n) ==
  LET fav == catalogo[n].brinquedos
  IN  /\ \A j \in 1..Len(fav) : Tem(inv, fav[j])
      /\ n # "Loco" =>
           \A j \in 1..(Len(fav) - 1) : Lugar(inv, fav[j]) < Lugar(inv, fav[j + 1])

Empate(n) == Satisfaz(p1Toys, n) /\ Satisfaz(p2Toys, n)

Contadores == [p \in Pessoas |-> <<estado[p].total, estado[p].gatos>>]

\* C1: at every step of the allocation pass and in the final result each
\* adopter has at most 3 animals assigned and at most 1 cat.
C1_LimitePorPessoa ==
  \A p \in Pessoas :
     /\ Cardinality(Adotados(p)) <= 3
     /\ Cardinality(Adotados(p) \cap Gatos) <= 1

\* A final result where an adopter holds 3 animals, one of them a cat, and
\* an animal only that adopter is eligible for stayed in the shelter.
C1_Witness ==
  /\ pc = "retorna"
  /\ \E p \in Pessoas :
       /\ Cardinality(Adotados(p)) = 3
       /\ Cardinality(Adotados(p) \cap Gatos) = 1
       /\ \E n \in DOMAIN destino :
            /\ destino[n] = "abrigo"
            /\ Satisfaz(Inventario(p), n)
            /\ ~Satisfaz(Inventario(3 - p), n)

\* C2: an animal both inventories are eligible for is at 'abrigo' from the
\* step that processes it on, the final result included, and that step
\* leaves both adopters' total and cat counters as they were.
C2_EmpateNoAbrigo ==
  [][\A n \in DOMAIN destino' :
        Empate(n) =>
          /\ destino'[n] = "abrigo"
          /\ n \notin DOMAIN destino => Contadores' = Contadores]_vars

\* A final result with a tie at the shelter next to an adoption.
C2_Witness ==
  /\ pc = "retorna"
  /\ \E n \in DOMAIN destino : Empate(n) /\ destino[n] = "abrigo"
  /\ \E p \in Pessoas : estado[p].total >= 1 /\ Adotados(p) # {}

\* C3: in the final result Loco is with an adopter only if that adopter's
\* inventory holds SKATE and RATO and another animal of the order is with
\* the same adopter; otherwise Loco is at 'abrigo'.
C3_LocoAcompanhado ==
  (pc = "retorna" /\ "Loco" \in DOMAIN destino) =>
     \/ destino["Loco"] = "abrigo"
     \/ \E p \in Pessoas :
          /\ destino["Loco"] = Rotulo(p)
          /\ Tem(Inventario(p), "SKATE") /\ Tem(Inventario(p), "RATO")
          /\ Adotados(p) \ {"Loco"} # {}

\* A final result where Loco stays with pessoa 2.
C3_Witness ==
  /\ pc = "retorna"
  /\ "Loco" \in DOMAIN destino
  /\ destino["Loco"] = "pessoa 2"
  /\ Cardinality(Adotados(2)) >= 2

\* fav occurs in inv in its own order, not necessarily contiguously
EhSubsequencia(fav, inv) ==
  \E f \in [1..Len(fav) -> 1..Len(inv)] :
     /\ \A j \in 1..(Len(fav) - 1) : f[j] < f[j + 1]
     /\ \A j \in 1..Len(fav) : inv[f[j]] = fav[j]

\* C4: for every animal other than Loco and every duplicate-free inventory
\* over the six valid toys the eligibility test returns true exactly when
\* the favourite sequence is an order-preserving subsequence of the
\* inventory; an empty favourite sequence is always eligible.
C4_ElegivelSseSubsequencia ==
  (pc = "retorna" /\ entrada.nomeAnimal # "Loco") =>
     (resultado.valor <=> EhSubsequencia(entrada.favs, entrada.toysPessoa))

\* Rex's RATO, BOLA found around a LASER.
C4_Witness ==
  /\ pc = "retorna"
  /\ entrada.nomeAnimal = "Rex"
  /\ entrada.toysPessoa = <<"RATO", "LASER", "BOLA">>
  /\ resultado.valor = TRUE

InventarioValido(l) ==
  /\ \A k \in 1..Len(l) : l[k] \in brinquedosValidos
  /\ \A a, b \in 1..Len(l) : a # b => l[a] # l[b]

OrdemInvalida(l) ==
  \/ \E k \in 1..Len(l) : l[k] \notin Animais
  \/ \E a, b \in 1..Len(l) : a # b /\ l[a] = l[b]

\* C5: with both inventories valid, a processing order holding a name that
\* is not a catalog key, or a name twice, returns 'Animal inválido'.
C5_AnimalInvalido ==
  (/\ pc = "fim"
   /\ InventarioValido(p1Toys)
   /\ InventarioValido(p2Toys)
   /\ OrdemInvalida(ordemAnimais))
    => resultado = [erro |-> "Animal inválido"]

\* C6: an inventory with a token outside the six toys or with a token twice
\* returns 'Brinquedo inválido', whatever the other inventory and the order.
C6_BrinquedoInvalido ==
  (pc = "fim" /\ (~InventarioValido(p1Toys) \/ ~InventarioValido(p2Toys)))
    => resultado = [erro |-> "Brinquedo inválido"]

\* Only the second inventory is invalid, and the order is invalid too.
C6_Witness ==
  /\ pc = "fim"
  /\ InventarioValido(p1Toys)
  /\ ~InventarioValido(p2Toys)
  /\ OrdemInvalida(ordemAnimais)
  /\ resultado = [erro |-> "Brinquedo inválido"]

ValidacaoPassou ==
  /\ validaBrinquedos(p1Toys) = "ok"
  /\ validaBrinquedos(p2Toys) = "ok"
  /\ validaAnimais(ordemAnimais) = "ok"

\* C7: #processaAdocoes is entered only after the three validations passed;
\* when a validation fails no allocation step has run and the result is one
\* of the two error messages without a list; no result has both an error
\* and a list.
C7_ValidacaoAntes ==
  /\ (pc # "inicio" /\ (pos >= 1 \/ DOMAIN destino # {})) => ValidacaoPassou
  /\ (pc = "fim" /\ ~ValidacaoPassou) =>
        /\ pos = 0
        /\ DOMAIN destino = {}
        /\ \A p \in Pessoas : estado[p].total = 0 /\ estado[p].gatos = 0
        /\ DOMAIN resultado = {"erro"}
        /\ resultado.erro \in {"Brinquedo inválido", "Animal inválido"}
  /\ pc = "fim" => (DOMAIN resultado = {"erro"} \/ DOMAIN resultado = {"lista"})

\* The order fails validation after both inventories passed.
C7_Witness ==
  /\ pc = "fim"
  /\ validaBrinquedos(p1Toys) = "ok"
  /\ validaBrinquedos(p2Toys) = "ok"
  /\ validaAnimais(ordemAnimais) # "ok"
  /\ resultado = [erro |-> "Animal inválido"]
  /\ pos = 0

OrdemAlfabetica == <<"Bebe", "Bola", "Fofo", "Loco", "Mimi", "Rex", "Zero">>

Destinos == {"abrigo", "pessoa 1", "pessoa 2"}

EntradaValida ==
  /\ InventarioValido(p1Toys)
  /\ InventarioValido(p2Toys)
  /\ ~OrdemInvalida(ordemAnimais)

\* C8: for a valid input the list has one entry "<name> - <destination>" for
\* each animal of the processing order and no other, each destination one
\* of the three labels, the entries ascending by animal name.
C8_ListaOrdenada ==
  (pc = "fim" /\ EntradaValida) =>
     /\ DOMAIN resultado = {"lista"}
     /\ LET nomes == SelectSeq(OrdemAlfabetica,
                       LAMBDA n : \E k \in 1..Len(ordemAnimais) :
                                     ordemAnimais[k] = n)
        IN  /\ Len(resultado.lista) = Len(ordemAnimais)
            /\ Len(nomes) = Len(ordemAnimais)
            /\ \A k \in 1..Len(nomes) :
                 \E d \in Destinos :
                    resultado.lista[k] = nomes[k] \o " - " \o d

\* An order given as Zero, Rex is listed as Rex, Zero.
C8_Witness ==
  /\ pc = "fim"
  /\ ordemAnimais = <<"Zero", "Rex">>
  /\ resultado = [lista |-> <<"Rex - pessoa 1", "Zero - pessoa 1">>]

\* C9: a call returns what every earlier call of the same instance with the
\* same arguments returned, whatever calls were made in between.
C9_ChamadasIndependentes ==
  pc = "fim" =>
     \A k \in 1..Len(chamadas) :
        chamadas[k].args = argumentos => chamadas[k].resultado = resultado

\* The third call repeats the first after a different second call.
C9_Witness ==
  /\ pc = "fim"
  /\ Len(chamadas) = 2
  /\ chamadas[1].args = argumentos
  /\ chamadas[2].args # argumentos
  /\ "lista" \in DOMAIN chamadas[2].resultado
  /\ resultado = [lista |-> <<"Loco - pessoa 1", "Rex - pessoa 1">>]

\* an empty or blank string, or a value that is not a string
Vazio(arg) ==
  arg.tipo # "string" \/ \A k \in 1..Len(arg.pedacos) : arg.pedacos[k] = " "

\* C10: an empty, blank or non-string argument is parsed as the empty list;
\* an adopter with such an inventory is assigned no animal; such an order
\* with valid inventories returns the empty list.
C10_VazioComoListaVazia ==
  /\ pc # "inicio" =>
        /\ Vazio(pessoa1Str) => p1Toys = << >>
        /\ Vazio(pessoa2Str) => p2Toys = << >>
        /\ Vazio(ordemAnimaisStr) => ordemAnimais = << >>
  /\ \A p \in Pessoas :
        Vazio(IF p = 1 THEN pessoa1Str ELSE pessoa2Str) =>
           /\ Adotados(p) = {}
           /\ (pc = "fim" /\ "lista" \in DOMAIN resultado) =>
                 \A k \in 1..Len(resultado.lista) : \A n \in Animais :
                    resultado.lista[k] # n \o " - " \o Rotulo(p)
  /\ (/\ pc = "fim"
      /\ Vazio(ordemAnimaisStr)
      /\ InventarioValido(p1Toys)
      /\ InventarioValido(p2Toys)) => resultado = [lista |-> << >>]

\* pessoa 1's inventory is not a string and pessoa 2 adopts Rex.
C10_Witness ==
  /\ pc = "fim"
  /\ pessoa1Str.tipo = "undefined"
  /\ resultado = [lista |-> <<"Rex - pessoa 2">>]

Argumento(p) == IF p = 1 THEN pessoa1Str ELSE pessoa2Str

AlgumNaoString ==
  \E a \in {pessoa1Str, pessoa2Str, ordemAnimaisStr} : a.tipo # "string"

\* an inventory given as a string that holds an unknown or repeated token
BrinquedoRuim(p) ==
  Argumento(p).tipo = "string" /\ ~InventarioValido(Inventario(p))

\* C11 as stated: a call with an argument that is not a string returns the
\* error 'Brinquedo inválido'.
C11_NaoStringComoErro ==
  (pc = "fim" /\ AlgumNaoString) =>
     resultado = [erro |-> "Brinquedo inválido"]

\* C11 amended: an argument that is not a string raises no error by itself.
\* A call with such an argument returns 'Brinquedo inválido' only when an
\* inventory given as a string is invalid or the order given as a string
\* holds a name that is not a catalog key, returns 'Animal inválido' only
\* when the order given as a string is invalid, and returns a list when the
\* arguments given as strings are valid.
C11_NaoStringSemErro ==
  (pc = "fim" /\ AlgumNaoString) =>
     /\ resultado = [erro |-> "Brinquedo inválido"] =>
          \/ BrinquedoRuim(1)
          \/ BrinquedoRuim(2)
          \/ /\ ordemAnimaisStr.tipo = "string"
             /\ \E k \in 1..Len(ordemAnimais) : ordemAnimais[k] \notin Animais
     /\ resultado = [erro |-> "Animal inválido"] =>
          ordemAnimaisStr.tipo = "string" /\ OrdemInvalida(ordemAnimais)
     /\ (/\ ~BrinquedoRuim(1)
         /\ ~BrinquedoRuim(2)
         /\ ordemAnimaisStr.tipo = "string" => ~OrdemInvalida(ordemAnimais))
          => DOMAIN resultado = {"lista"}

\* pessoa 2's inventory is a number and pessoa 1 adopts Rex.
C11_Witness ==
  /\ pc = "fim"
  /\ pessoa1Str = Texto(<<"RATO", ",", "BOLA">>)
  /\ pessoa2Str.tipo = "number"
  /\ ordemAnimais = <<"Rex">>
  /\ resultado = [lista |-> <<"Rex - pessoa 1">>]

\* the adopters whose inventory satisfies animal n
Elegiveis(n) == {p \in Pessoas : Satisfaz(Inventario(p), n)}

\* the animal the step has just processed, as a set
Processado == (DOMAIN destino') \ (DOMAIN destino)

\* C12: a step of the allocation pass places the animal with adopter A
\* exactly when A is the only eligible adopter, fewer than 3 animals are
\* placed with A so far (a provisional Loco included) and the animal is no
\* cat or no cat is placed with A; the placement adds 1 to A's total and 1
\* to A's cat counter only for a cat; in every other case the animal goes
\* to 'abrigo' and no counter changes.
C12_RegraDeAlocacao ==
  [][\A n \in Processado :
        LET cabe(a) ==
              /\ Elegiveis(n) = {a}
              /\ Cardinality(Adotados(a)) < 3
              /\ estado[a].total < 3
              /\ n \in Gatos => (Adotados(a) \cap Gatos = {} /\ estado[a].gatos = 0)
        IN  /\ \A a \in Pessoas : destino'[n] = Rotulo(a) <=> cabe(a)
            /\ \A a \in Pessoas :
                  cabe(a) =>
                    /\ estado'[a].total = estado[a].total + 1
                    /\ estado'[a].gatos =
                         estado[a].gatos + (IF n \in Gatos THEN 1 ELSE 0)
                    /\ Contadores'[3 - a] = Contadores[3 - a]
            /\ (\A a \in Pessoas : ~cabe(a)) =>
                  destino'[n] = "abrigo" /\ Contadores' = Contadores
            /\ \A m \in DOMAIN destino : destino'[m] = destino[m]]_vars

\* During the pass pessoa 1 holds Loco and two more animals, and an animal
\* only pessoa 1 is eligible for was sent to the shelter.
C12_Witness ==
  /\ pc = "alocar"
  /\ "Loco" \in Adotados(1)
  /\ Cardinality(Adotados(1)) = 3
  /\ Adotados(1) \cap Gatos = {}
  /\ \E n \in DOMAIN destino :
       /\ destino[n] = "abrigo"
       /\ Elegiveis(n) = {1}

\* the animals of the processing order
DaOrdem == {ordemAnimais[k] : k \in 1..Len(ordemAnimais)}

\* the place of animal n in the processing order
Vez(n) == CHOOSE k \in 1..Len(ordemAnimais) : ordemAnimais[k] = n

\* C13: the revalidation of Loco runs once, after every animal of the order
\* was allocated.  A step of the pass leaves Loco's entry as it is; the step
\* that ends the pass starts with every animal of the order allocated.  When
\* W is Loco's only eligible adopter and fewer than 3 animals before Loco
\* in the order are with W, Loco is with W when the pass ends, and its final
\* destination is W exactly when another animal of the order, before or
\* after Loco, is with W, and 'abrigo' otherwise.
C13_ReconciliaNoFim ==
  [][/\ (pc = "alocar" /\ pc' = "alocar" /\ "Loco" \in DOMAIN destino) =>
          destino'["Loco"] = destino["Loco"]
     /\ (pc = "alocar" /\ pc' = "montar") =>
          /\ DOMAIN destino = DaOrdem
          /\ \A w \in Pessoas :
                LET outros == {n \in DaOrdem \ {"Loco"} :
                                 destino'[n] = Rotulo(w)}
                    antes  == {n \in outros : Vez(n) < Vez("Loco")}
                IN  (Elegiveis("Loco") = {w} /\ Cardinality(antes) < 3) =>
                       /\ "Loco" \in Adotados(w)
                       /\ destino'["Loco"] = Rotulo(w) <=> outros # {}
                       /\ outros = {} => destino'["Loco"] = "abrigo"]_vars

\* The order Loco, Rex with the inventories SKATE,RATO,BOLA and LASER ends
\* with both at pessoa 1: Rex, allocated after Loco, is Loco's company.
C13_Witness ==
  /\ pc = "fim"
  /\ ordemAnimais = <<"Loco", "Rex">>
  /\ p1Toys = <<"SKATE", "RATO", "BOLA">>
  /\ p2Toys = <<"LASER">>
  /\ Vez("Loco") < Vez("Rex")
  /\ destino["Loco"] = "pessoa 1"
  /\ resultado = [lista |-> <<"Loco - pessoa 1", "Rex - pessoa 1">>]

\* the step that ends the allocation pass and revalidates Loco
FimDoPasse == pc = "alocar" /\ pc' # "alocar"

\* that step takes Loco away from adopter p
Revoga(p) == "Loco" \in Adotados(p) /\ destino'["Loco"] = "abrigo"

\* C14: the revalidation changes nothing but possibly Loco's entry: every
\* other animal keeps its destination, Loco's entry stays or becomes
\* 'abrigo', no animal at 'abrigo' moves to an adopter, both cat counters
\* stay, and an adopter's total decreases by exactly 1 when Loco is taken
\* from that adopter and stays otherwise.
C14_SoLocoMuda ==
  [][FimDoPasse =>
       /\ DOMAIN destino' = DOMAIN destino
       /\ \A n \in DOMAIN destino :
             /\ n # "Loco" => destino'[n] = destino[n]
             /\ destino'[n] \in {destino[n], "abrigo"}
             /\ destino[n] = "abrigo" => destino'[n] = "abrigo"
       /\ \A p \in Pessoas :
             /\ estado'[p].gatos = estado[p].gatos
             /\ estado'[p].total =
                  estado[p].total - (IF Revoga(p) THEN 1 ELSE 0)]_vars

\* After the revalidation Loco, which only pessoa 2 is eligible for, is at
\* the shelter and pessoa 2 has no animal, while pessoa 1 keeps a cat.
C14_Witness ==
  /\ pc = "retorna"
  /\ "Loco" \in DOMAIN destino
  /\ destino["Loco"] = "abrigo"
  /\ Elegiveis("Loco") = {2}
  /\ Adotados(2) = {}
  /\ estado[2].total = 0
  /\ Adotados(1) \cap Gatos # {}
  /\ estado[1].gatos = 1

\* C15: for a Loco the allocation pass placed with adopter w, the re-check
\* of lines 217-219 (w holds all of Loco's toys) is true, Loco is taken
\* from w exactly when Loco is the only animal with w when the pass ends,
\* and after that w's total is 0 and no animal is with w.
C15_RevogaSoSozinho ==
  [][FimDoPasse =>
       \A w \in Pessoas :
          "Loco" \in Adotados(w) =>
             /\ temTodos(Inventario(w), catalogo["Loco"].brinquedos)
             /\ Tem(Inventario(w), "SKATE") /\ Tem(Inventario(w), "RATO")
             /\ Revoga(w) <=> Adotados(w) = {"Loco"}
             /\ Revoga(w) =>
                  /\ estado'[w].total = 0
                  /\ \A n \in DOMAIN destino' : destino'[n] # Rotulo(w)]_vars

\* Loco and another animal were processed, only pessoa 1 is eligible for
\* Loco, and after the revalidation everything is at the shelter.
C15_Witness ==
  /\ pc = "retorna"
  /\ "Loco" \in DOMAIN destino
  /\ Cardinality(DOMAIN destino) >= 2
  /\ Elegiveis("Loco") = {1}
  /\ \A n \in DOMAIN destino : destino[n] = "abrigo"
  /\ estado[1].total = 0

\* the animals with adopter p after the step
AdotadosDepois(p) == {n \in DOMAIN destino' : destino'[n] = Rotulo(p)}

\* C16: a quota refusal is not made void later.  When a step sends an
\* animal to 'abrigo' although exactly one adopter a is eligible, either a's
\* total is 3 and 3 animals are with a, or the animal is a cat and exactly
\* one cat is with a; and from any state on, the final result included, an
\* adopter with 3 animals keeps exactly 3 and an adopter with a cat keeps
\* exactly 1 cat.
C16_RecusaPermanece ==
  [][\A a \in Pessoas :
        /\ \A n \in Processado :
              (destino'[n] = "abrigo" /\ Elegiveis(n) = {a}) =>
                 IF estado[a].total >= 3
                 THEN estado[a].total = 3 /\ Cardinality(Adotados(a)) = 3
                 ELSE /\ n \in Gatos
                      /\ estado[a].gatos = 1
                      /\ Cardinality(Adotados(a) \cap Gatos) = 1
        /\ Cardinality(Adotados(a)) = 3 =>
              Cardinality(AdotadosDepois(a)) = 3
        /\ Cardinality(Adotados(a) \cap Gatos) = 1 =>
              Cardinality(AdotadosDepois(a) \cap Gatos) = 1]_vars

\* A final result where pessoa 1 keeps Loco and two more animals, none of
\* them a cat, and an animal only pessoa 1 is eligible for is at the shelter.
C16_Witness ==
  /\ pc = "retorna"
  /\ "Loco" \in Adotados(1)
  /\ Cardinality(Adotados(1)) = 3
  /\ estado[1].total = 3
  /\ Adotados(1) \cap Gatos = {}
  /\ \E n \in DOMAIN destino :
       destino[n] = "abrigo" /\ Elegiveis(n) = {1}

\* the destination with the two adopters exchanged
Trocado(d) ==
  IF d = "pessoa 1" THEN "pessoa 2" ELSE IF d = "pessoa 2" THEN "pessoa 1" ELSE d

\* C17: the call with the two inventories exchanged and the same order
\* returns the same error when the first call returned an error, and
\* otherwise the same list with 'pessoa 1' and 'pessoa 2' exchanged and
\* every 'abrigo' entry as it was.
C17_PessoasSimetricas ==
  (pc = "fim" /\ Len(chamadas) = 1) =>
     LET antes == chamadas[1].resultado
     IN  /\ chamadas[1].args = <<pessoa2Str, pessoa1Str, ordemAnimaisStr>>
         /\ "erro" \in DOMAIN antes => resultado = antes
         /\ "lista" \in DOMAIN antes =>
               /\ DOMAIN resultado = {"lista"}
               /\ Len(resultado.lista) = Len(antes.lista)
               /\ \A k \in 1..Len(antes.lista) :
                     \E n \in Animais : \E d \in Destinos :
                        /\ antes.lista[k] = n \o " - " \o d
                        /\ resultado.lista[k] = n \o " - " \o Trocado(d)

\* Loco and Rex went to pessoa 1; with the inventories exchanged they go to
\* pessoa 2.
C17_Witness ==
  /\ pc = "fim"
  /\ Len(chamadas) = 1
  /\ chamadas[1].resultado = [lista |-> <<"Loco - pessoa 1", "Rex - pessoa 1">>]
  /\ resultado = [lista |-> <<"Loco - pessoa 2", "Rex - pessoa 2">>]

\* C18: after each step of the allocation pass and after the revalidation
\* of Loco, each adopter's total is the number of animals whose destination
\* is that adopter, and each adopter's gatos the number of cats among them.
C18_ContadoresConferem ==
  \A p \in Pessoas :
     /\ estado[p].total = Cardinality(Adotados(p))
     /\ estado[p].gatos = Cardinality(Adotados(p) \cap Gatos)

\* After the revalidation pessoa 1 keeps Loco, a cat and a dog, and pessoa 2
\* has an animal too.
C18_Witness ==
  /\ pc = "retorna"
  /\ "Loco" \in Adotados(1)
  /\ estado[1].total = 3
  /\ estado[1].gatos = 1
  /\ Adotados(1) \cap Gatos # {}
  /\ estado[2].total = 1
  /\ Adotados(2) # {}

====
